---- MODULE Spec2Model ----
(***************************************************************************)
(* imaget: the transfer pipeline of Download.Start (src/cmd/imaget.go).    *)
(*                                                                         *)
(* One run of Start is modelled step by step: the destination is built,    *)
(* the page is read, the references are extracted, the accept screen is    *)
(* shown, and then two execution units run side by side: the producer      *)
(* goroutine (downloadImages, then close(files)) and the consumer          *)
(* (copyFilesToDst, run by Start itself).  They share the buffered channel *)
(* files and the context ctx.  The cache directory tmpDir outlives a run;  *)
(* Restart models the tool being invoked again on the same page.           *)
(*                                                                         *)
(* A reference is identified by its position 1..n in the extractor's       *)
(* output (the output holds no URL twice).  A file is a sequence of bytes. *)
(*                                                                         *)
(* The text specification follows a run at the level of characters: the    *)
(* flags are parsed, the page is read, extractImageURLs is applied to the  *)
(* page text and every reference gets its cache path and its name in the   *)
(* destination.  It covers the extractor of both revisions of the library  *)
(* that the source tree holds, src/cmd/imaget.go and src/imaget.go.        *)
(***************************************************************************)
EXTENDS Integers, Sequences, FiniteSets, TLC

\* ---------------------------------------------------------------- bounds
MaxURLs == 5        \* references on the page, pipeline specification
MaxCacheURLs == 1   \* references on the page, cache specification
MaxSize == 3        \* bytes of one remote resource, cache specification
MaxRuns == 2        \* invocations of the tool, cache and text specification
MaxSegs == 3        \* segments a page is made of, text specification
MaxLiveURLs == 4    \* references on the page, scheduled specification

\* make(chan file, 3)
QueueCap == 3

VARIABLES
    Dst,         \* d.Dst, by the class of its extension: "dir", "zip", "other"
    SkipAccept,  \* d.SkipAccept
    Pre,         \* what was at the destination path before the run: "absent", "old"
    page,        \* number of distinct matching references in the page bytes
    size,        \* size[u]: length of the remote resource of reference u
    ctxDone,     \* ctx.Done() is closed (cancel or deadline)
    spc,         \* position of Start
    err,         \* what Start returned: "none" (not yet), "nil", or the failing step
    dst,         \* the destination: "none", "open", "closed"
    closes,      \* number of dst.Close() calls
    closedAt,    \* at dst.Close(): was files closed, how many results were queued
    content,     \* readSite returned the page bytes
    imageURLs,   \* the extractor's output
    files,       \* the buffered channel
    filesClosed, \* close(files) was called
    ppc,         \* position of the producer goroutine
    i,           \* index of the producer's range loop (1-based)
    res,         \* the grab response of the current downloadImage call
    cpc,         \* position of copyFilesToDst
    f,           \* the file copyFilesToDst received and is copying
    cache,       \* tmpDir: path -> bytes on disk
    run,         \* number of the current invocation of the tool
    enqueued,    \* history: references sent on files, in order
    written,     \* history: references handed to copyFileToDst, in order
    sinkErr,     \* history: references whose copyFileToDst returned an error
    started,     \* history: references whose request passed grab's context check
    fetchErr,    \* history: references whose downloadImage returned a non-context error
    cancelAt,    \* history: reference in flight when ctx was cancelled, 0 if none
    fetched,     \* history: u -> path a fully completed fetch of u returned
    pausedAt,    \* history: u -> bytes on disk when the last fetch of u was
                 \* ended by the context, -1 otherwise
    dstDisk,     \* what is at the destination path: "absent", "old" (as before
                 \* the run), "new" (created or truncated by this run)
    open,        \* streams returned by dst.create and not yet closed
    Rev,         \* the revision that runs: "cmd" (src/cmd/imaget.go) or "lib"
                 \* (src/imaget.go with src/cmd/main.go)
    FlagR,       \* text of the -r flag, <<>> when not given
    FlagP,       \* text of the -p flag, <<>> when not given
    SaveFlat,    \* d.SaveFlat
    body,        \* text of the page
    mpc,         \* position of main in the text specification
    merr,        \* what the run ended with: "none" (not yet), "nil", "flag", "page"
    siteRead,    \* the request for the page was sent
    urls,        \* the extractor's output, as texts
    named,       \* per reference of this run: url, cache path, name in the
                 \* destination, file that dirDst.create opens
    paths        \* history: <<run, url, cache path>> of every run

vars == <<Dst, SkipAccept, page, size, ctxDone, spc, err, dst, closes, closedAt,
          imageURLs, files, filesClosed, ppc, i, res, cpc, f, cache, run,
          enqueued, written, sinkErr, started, fetchErr, cancelAt, fetched,
          content, pausedAt, Pre, dstDisk, open,
          Rev, FlagR, FlagP, SaveFlat, body, mpc, merr, siteRead, urls, named, paths>>

textVars == <<Rev, FlagR, FlagP, SaveFlat, body, mpc, merr, siteRead, urls, named, paths>>
\* What no step of the pipeline changes.
config == <<Dst, SkipAccept, page, size, Pre, textVars>>
startVars == <<spc, err, dst, closes, closedAt, content, imageURLs>>
producerVars == <<ppc, i, res, enqueued, started, fetchErr, fetched, pausedAt>>
consumerVars == <<cpc, f, written, sinkErr, open>>

\* ------------------------------------------------------------- helpers
Range(s) == {s[k] : k \in 1..Len(s)}

IsPrefix(s, t) == Len(s) <= Len(t) /\ SubSeq(t, 1, Len(s)) = s

Count(s, x) == Cardinality({k \in 1..Len(s) : s[k] = x})

\* The bytes of the remote resource of reference u.
Content(u) == [k \in 1..size[u] |-> (u + k) % 4]

NoPath == <<>>

\* No downloadImage call is in progress.
NoResponse == [state |-> "none", url |-> 0, path |-> NoPath, from |-> 0, net |-> 0,
               pre |-> <<>>, again |-> FALSE, paused |-> -1]

NoFile == [path |-> NoPath, url |-> 0]

\* The file at path p of the cache directory; a missing file has no bytes.
FileAt(p) == IF p \in DOMAIN cache THEN cache[p] ELSE <<>>

WriteFile(p, bytes) == [q \in DOMAIN cache \cup {p} |-> IF q = p THEN bytes ELSE cache[q]]

\* ------------------------------------------------- text and references
\* Text is a sequence of one-character strings.
Digits == <<"0", "1", "2", "3", "4", "5", "6", "7", "8", "9">>

Upper ==
    <<"A", "B", "C", "D", "E", "F", "G", "H", "I", "J", "K", "L", "M",
      "N", "O", "P", "Q", "R", "S", "T", "U", "V", "W", "X", "Y", "Z">>

Lower ==
    <<"a", "b", "c", "d", "e", "f", "g", "h", "i", "j", "k", "l", "m",
      "n", "o", "p", "q", "r", "s", "t", "u", "v", "w", "x", "y", "z">>

\* Punctuation that pages, references and filter expressions are written
\* with, each with its ASCII code.
Punct ==
    {<<" ", 32>>, <<"$", 36>>, <<"(", 40>>, <<"*", 42>>, <<"-", 45>>, <<".", 46>>,
     <<"/", 47>>, <<":", 58>>, <<"<", 60>>, <<"?", 63>>, <<"[", 91>>, <<"^", 94>>,
     <<"_", 95>>, <<"|", 124>>}

IndexOf(t, c) == CHOOSE k \in 1..Len(t) : t[k] = c

WordChars == Range(Digits) \cup Range(Upper) \cup Range(Lower) \cup {"_"}

\* The byte of every character.
Bytes ==
    [c \in WordChars \cup {pc[1] : pc \in Punct} |->
        CASE c \in Range(Digits) -> 47 + IndexOf(Digits, c)
          [] c \in Range(Upper) -> 64 + IndexOf(Upper, c)
          [] c \in Range(Lower) -> 96 + IndexOf(Lower, c)
          [] OTHER -> (CHOOSE pc \in Punct : pc[1] = c)[2]]

Ord(c) == Bytes[c]

\* The suffix of t from position p on.
From(t, p) == SubSeq(t, p, Len(t))

HasPrefix(t, pre) == IsPrefix(pre, t)

\* strings.TrimPrefix
TrimPrefix(t, pre) == IF HasPrefix(t, pre) THEN From(t, Len(pre) + 1) ELSE t

\* The position of the last c in t, 0 when there is none.
LastIndex(t, c) ==
    IF \E k \in 1..Len(t) : t[k] = c
    THEN CHOOSE k \in 1..Len(t) : t[k] = c /\ \A j \in (k + 1)..Len(t) : t[j] # c
    ELSE 0

\* The classes of imageRegex: \w, \s and the bracket [/|.|\w|\s|-].
IsWord(c) == c \in WordChars

IsSpace(c) == c = " "

InClass(c) == c \in {"/", "|", ".", "-"} \/ IsWord(c) \/ IsSpace(c)

ImageExts == {<<".", "j", "p", "g">>, <<".", "g", "i", "f">>, <<".", "p", "n", "g">>}

\* Length of the (http(s?):) group at position p of t, 0 when it does not
\* match there.
SchemeAt(t, p) ==
    IF p > Len(t) \/ t[p] # "h" THEN 0
    ELSE IF HasPrefix(From(t, p), <<"h", "t", "t", "p", ":">>) THEN 5
    ELSE IF HasPrefix(From(t, p), <<"h", "t", "t", "p", "s", ":">>) THEN 6
    ELSE 0

\* The last position of the longest run of class characters that starts at
\* position p of t (p - 1 when the run is empty).
RECURSIVE RunEnd(_, _)
RunEnd(t, p) ==
    IF p <= Len(t) /\ InClass(t[p]) THEN RunEnd(t, p + 1) ELSE p - 1

\* imageRegex anchored at position p of t: the position where the match ends,
\* 0 when there is none. The star is greedy, so the match ends with the last
\* extension of the run of class characters that follows the scheme.
MatchEnd(t, p) ==
    LET sl == SchemeAt(t, p)
        ends == {e \in (p + sl + 3)..RunEnd(t, p + sl) : SubSeq(t, e - 3, e) \in ImageExts}
    IN  IF sl = 0 \/ ends = {} THEN 0
        ELSE CHOOSE e \in ends : \A e2 \in ends : e2 <= e

\* imageRegex.FindAllString(t, -1): the leftmost match, then the leftmost
\* match after its end, and so on; each match as <<start, end>>.
RECURSIVE FindAllIndexFrom(_, _)
FindAllIndexFrom(t, from) ==
    LET starts == {p \in from..Len(t) : MatchEnd(t, p) # 0}
    IN  IF starts = {} THEN <<>>
        ELSE LET p == CHOOSE q \in starts : \A q2 \in starts : q <= q2
             IN  <<<<p, MatchEnd(t, p)>>>> \o FindAllIndexFrom(t, MatchEnd(t, p) + 1)

FindAllString(t) ==
    LET ix == FindAllIndexFrom(t, 1)
    IN  [k \in 1..Len(ix) |-> SubSeq(t, ix[k][1], ix[k][2])]

\* The alphabet of base64.URLEncoding: A-Z a-z 0-9 - _
EncodeURL == Upper \o Lower \o Digits \o <<"-", "_">>

\* base64.URLEncoding.EncodeToString of the bytes of t: three bytes make four
\* characters of the alphabet; a last group of one or two bytes makes two or
\* three characters and is padded with "=" to four.
RECURSIVE EncodeToString(_)
EncodeToString(t) ==
    LET b(k) == IF k <= Len(t) THEN Ord(t[k]) ELSE 0
        val == b(1) * 65536 + b(2) * 256 + b(3)
        ch(k) == EncodeURL[((val \div (64 ^ (4 - k))) % 64) + 1]
    IN  IF t = <<>> THEN <<>>
        ELSE IF Len(t) = 1 THEN <<ch(1), ch(2), "=", "=">>
        ELSE IF Len(t) = 2 THEN <<ch(1), ch(2), ch(3), "=">>
        ELSE <<ch(1), ch(2), ch(3), ch(4)>> \o EncodeToString(From(t, 4))

\* The character of a byte.
Chr(b) == CHOOSE c \in DOMAIN Bytes : Bytes[c] = b

\* base64.URLEncoding.DecodeString, for a text EncodeToString made: four
\* characters make three bytes, less one for every "=".
RECURSIVE DecodeString(_)
DecodeString(t) ==
    LET v(k) == IF t[k] = "=" THEN 0 ELSE IndexOf(EncodeURL, t[k]) - 1
        val == v(1) * 262144 + v(2) * 4096 + v(3) * 64 + v(4)
        b(k) == Chr((val \div (256 ^ (3 - k))) % 256)
    IN  IF t = <<>> THEN <<>>
        ELSE IF t[3] = "=" THEN <<b(1)>>
        ELSE IF t[4] = "=" THEN <<b(1), b(2)>>
        ELSE <<b(1), b(2), b(3)>> \o DecodeString(From(t, 5))

\* filepath.Ext: the suffix that begins at the last dot of the last element
\* of the path, empty when that element has no dot.
Ext(t) ==
    LET dot == LastIndex(t, ".")
    IN  IF dot > LastIndex(t, "/") THEN From(t, dot) ELSE <<>>

\* filepath.Base: the last element of the path, trailing separators removed.
RECURSIVE Base(_)
Base(t) ==
    IF t = <<>> THEN <<".">>
    ELSE IF t[Len(t)] = "/"
         THEN IF Len(t) = 1 THEN <<"/">> ELSE Base(SubSeq(t, 1, Len(t) - 1))
         ELSE From(t, LastIndex(t, "/") + 1)

\* The elements of a path: the texts between its separators.
RECURSIVE Elems(_)
Elems(t) ==
    IF "/" \notin Range(t) THEN <<t>>
    ELSE LET k == CHOOSE j \in 1..Len(t) : t[j] = "/" /\ \A h \in 1..(j - 1) : t[h] # "/"
         IN  <<SubSeq(t, 1, k - 1)>> \o Elems(From(t, k + 1))

\* The elements that filepath.Clean keeps of a rooted path: an empty element
\* and "." are dropped, ".." drops the element before it and is dropped
\* itself at the root.
RECURSIVE Kept(_, _)
Kept(stack, els) ==
    IF els = <<>> THEN stack
    ELSE IF Head(els) \in {<<>>, <<".">>} THEN Kept(stack, Tail(els))
    ELSE IF Head(els) = <<".", ".">>
         THEN Kept(IF stack = <<>> THEN stack ELSE SubSeq(stack, 1, Len(stack) - 1),
                   Tail(els))
    ELSE Kept(Append(stack, Head(els)), Tail(els))

RECURSIVE Rooted(_)
Rooted(els) == IF els = <<>> THEN <<>> ELSE <<"/">> \o Head(els) \o Rooted(Tail(els))

\* filepath.Clean of a rooted path.
Clean(t) ==
    LET els == Kept(<<>>, Elems(t))
    IN  IF els = <<>> THEN <<"/">> ELSE Rooted(els)

\* filepath.Join of a rooted directory and a name: the joined path, cleaned.
Join(dir, name) == Clean(dir \o <<"/">> \o name)

\* Variant of base64Filename: only the last element of the URL is encoded.
base64FilenameOfBase(imageURL) == EncodeToString(Base(imageURL)) \o Ext(imageURL)

\* base64Filename: encodes an image url to base64 to become a valid file name.
base64Filename(imageURL) == EncodeToString(imageURL) \o Ext(imageURL)

\* tmpDir = filepath.Join(os.TempDir(), "imaget")
tmpDir == <<"/", "t", "m", "p", "/", "i", "m", "a", "g", "e", "t">>

\* The Filename of the grab request downloadImage makes for imageURL.
RequestFilename(imageURL) == Join(tmpDir, base64Filename(imageURL))

\* Variant of DstFile: only the prefix "http://" is removed.
DstFileTrimHTTP(flat, fl) ==
    IF flat THEN Base(fl.path)
    ELSE TrimPrefix(fl.url, <<"h", "t", "t", "p", ":", "/", "/">>)

\* Variant of DstFile: the flat name is taken from the URL, not from the
\* cached file.
DstFileOfURL(flat, fl) ==
    IF flat THEN Base(fl.url)
    ELSE TrimPrefix(TrimPrefix(fl.url, <<"h", "t", "t", "p", ":", "/", "/">>),
                    <<"h", "t", "t", "p", "s", ":", "/", "/">>)

\* The name copyFileToDst passes to dst.create for a downloaded file.
DstFile(flat, fl) ==
    IF flat THEN Base(fl.path)
    ELSE TrimPrefix(TrimPrefix(fl.url, <<"h", "t", "t", "p", ":", "/", "/">>),
                    <<"h", "t", "t", "p", "s", ":", "/", "/">>)

\* Filter expressions are drawn from a fragment of each syntax. A regular
\* expression is a literal text in which "." stands for any character, with
\* an optional "^" in front and an optional "$" at the end; "(" without ")"
\* is the malformed expression. regexp.Compile fails on a malformed one.
CompileFails(expr) ==
    \E k \in 1..Len(expr) :
        expr[k] = "(" /\ \A j \in (k + 1)..Len(expr) : expr[j] # ")"

\* Regexp.MatchString for a compiled expression of the fragment.
MatchString(expr, t) ==
    LET front == expr # <<>> /\ expr[1] = "^"
        back == expr # <<>> /\ expr[Len(expr)] = "$"
        lit == SubSeq(expr, IF front THEN 2 ELSE 1,
                      IF back THEN Len(expr) - 1 ELSE Len(expr))
        at(p) == /\ p + Len(lit) - 1 <= Len(t)
                 /\ \A k \in 1..Len(lit) : lit[k] = "." \/ lit[k] = t[p + k - 1]
    IN  \E p \in 1..(Len(t) + 1) :
            /\ at(p)
            /\ front => p = 1
            /\ back => p + Len(lit) - 1 = Len(t)

\* A shell pattern is a text of literals, "*" (any run of characters other
\* than the separator) and "?" (one such character); "[" without "]" is the
\* malformed pattern.
BadPattern(pattern) ==
    \E k \in 1..Len(pattern) :
        pattern[k] = "[" /\ \A j \in (k + 1)..Len(pattern) : pattern[j] # "]"

RECURSIVE Glob(_, _)
Glob(pattern, name) ==
    IF pattern = <<>> THEN name = <<>>
    ELSE IF pattern[1] = "*"
         THEN \/ Glob(Tail(pattern), name)
              \/ name # <<>> /\ name[1] # "/" /\ Glob(pattern, Tail(name))
         ELSE /\ name # <<>>
              /\ IF pattern[1] = "?" THEN name[1] # "/" ELSE name[1] = pattern[1]
              /\ Glob(Tail(pattern), Tail(name))

\* filepath.Match: whether name matches pattern, and the error
\* (ErrBadPattern) for a malformed pattern.
Match(pattern, name) ==
    IF BadPattern(pattern) THEN [match |-> FALSE, err |-> "ErrBadPattern"]
    ELSE [match |-> Glob(pattern, name), err |-> "nil"]

\* Variant of Dedup: of equal strings the last one is kept.
RECURSIVE DedupLast(_)
DedupLast(a) ==
    IF a = <<>> THEN <<>>
    ELSE IF Head(a) \in Range(Tail(a)) THEN DedupLast(Tail(a))
         ELSE <<Head(a)>> \o DedupLast(Tail(a))

\* The deduplication loop of extractImageURLs: a string that is in the map
\* already is skipped.
RECURSIVE Dedup(_)
Dedup(a) ==
    IF a = <<>> THEN <<>>
    ELSE LET b == Dedup(SubSeq(a, 1, Len(a) - 1))
         IN  IF a[Len(a)] \in Range(b) THEN b ELSE Append(b, a[Len(a)])

\* Download.extractImageURLs of src/cmd/imaget.go; regex is the compiled -r
\* flag, <<>> for nil.
extractImageURLs(s, regex) ==
    LET b == Dedup(FindAllString(s))
        Keep(u) == MatchString(regex, u)
    IN  IF regex # <<>> THEN SelectSeq(b, Keep) ELSE b

\* Download.extractImageURLs of src/imaget.go, which filters by the shell
\* pattern as well: a string is skipped when filepath.Match returned no error
\* or no match.
extractImageURLsPattern(s, pattern, regex) ==
    LET b == Dedup(FindAllString(s))
        Skip(u) ==
            \/ /\ pattern # <<>>
               /\ Match(pattern, u).err = "nil" \/ ~Match(pattern, u).match
            \/ regex # <<>> /\ ~MatchString(regex, u)
        Keep(u) == ~Skip(u)
    IN  SelectSeq(b, Keep)

\* ------------------------------------------------------------ Start
\* Variant of newDst: an extension that is not recognised is taken for an
\* archive.
newDstDefaultZip(kind, fsOK) ==
    IF ~fsOK THEN "err"
    ELSE CASE kind = "dir" -> "dirDst"
           [] OTHER -> "zipDst"

\* newDst: the destination for d.Dst; fsOK is whether the file system calls
\* (filepath.Abs, os.MkdirAll, os.Create) succeed.
newDst(kind, fsOK) ==
    IF ~fsOK THEN "err"
    ELSE CASE kind = "dir" -> "dirDst"
           [] kind = "zip" -> "zipDst"
           [] OTHER -> "err"

\* Variant of newDstDisk: the destination directory is made when the
\* destination is constructed.
newDstDiskMkdir(r, d) ==
    IF r = "err" THEN d
    ELSE IF r = "zipDst" \/ d = "absent" THEN "new" ELSE d

\* What newDst leaves at the destination path: newZipDst creates the archive
\* file with os.Create, which truncates a file that exists; dirDst(dst) is a
\* conversion and touches nothing.
newDstDisk(r, d) == IF r = "zipDst" THEN "new" ELSE d

\* dst.Close(), as Start's deferred call runs it.
dstClose ==
    /\ dst' = "closed"
    /\ closes' = closes + 1
    /\ closedAt' = [filesClosed |-> filesClosed, queued |-> Len(files)]

\* Variant of Return: dst.Close() is called on the normal path only, not
\* deferred.
ReturnCloseAtEnd(e) ==
    /\ spc' = "returned"
    /\ err' = e
    /\ IF dst = "open" /\ spc = "copy" THEN dstClose
       ELSE UNCHANGED <<dst, closes, closedAt>>

\* Start returns e; the deferred dst.Close() runs when the defer statement
\* was reached, that is when newDst had succeeded.
Return(e) ==
    /\ spc' = "returned"
    /\ err' = e
    /\ IF dst = "open" THEN dstClose ELSE UNCHANGED <<dst, closes, closedAt>>

\* dst, err := newDst(d.Dst); if err != nil { return err }; defer dst.Close()
NewDst ==
    /\ spc = "newDst"
    /\ \E fsOK \in BOOLEAN :
         /\ dstDisk' = newDstDisk(newDst(Dst, fsOK), dstDisk)
         /\ IF newDst(Dst, fsOK) = "err"
            THEN Return("dst")
            ELSE /\ dst' = "open"
                 /\ spc' = "newRequest"
                 /\ UNCHANGED <<err, closes, closedAt>>
    /\ UNCHANGED <<config, ctxDone, content, imageURLs, files, filesClosed,
                   producerVars, consumerVars, cache, run, cancelAt>>

\* req, err := newRequest(ctx, d.Src); if err != nil { return err }
NewRequest ==
    /\ spc = "newRequest"
    /\ \E urlOK \in BOOLEAN :
         IF urlOK
         THEN spc' = "readSite" /\ UNCHANGED <<err, dst, closes, closedAt>>
         ELSE Return("req")
    /\ UNCHANGED <<config, dstDisk, ctxDone, content, imageURLs, files, filesClosed,
                   producerVars, consumerVars, cache, run, cancelAt>>

\* content, err := d.readSite(req): the request carries ctx, so a finished
\* context fails it; otherwise the network decides.
ReadSite ==
    /\ spc = "readSite"
    /\ \E netOK \in BOOLEAN :
         IF netOK /\ ~ctxDone
         THEN /\ spc' = "extract"
              /\ content' = TRUE
              /\ UNCHANGED <<err, dst, closes, closedAt>>
         ELSE Return("page") /\ UNCHANGED content
    /\ UNCHANGED <<config, dstDisk, ctxDone, imageURLs, files, filesClosed,
                   producerVars, consumerVars, cache, run, cancelAt>>

\* imageURLs := d.extractImageURLs(content)
Extract ==
    /\ spc = "extract"
    /\ imageURLs' = [k \in 1..page |-> k]
    /\ spc' = "accept"
    /\ UNCHANGED <<config, dstDisk, ctxDone, err, dst, closes, closedAt, content, files,
                   filesClosed, producerVars, consumerVars, cache, run, cancelAt>>

\* if !d.SkipAccept && !acceptScreen(...) { return nil }
Accept ==
    /\ spc = "accept"
    /\ \E answer \in BOOLEAN :
         IF SkipAccept \/ answer
         THEN spc' = "download" /\ UNCHANGED <<err, dst, closes, closedAt>>
         ELSE Return("nil")
    /\ UNCHANGED <<config, dstDisk, ctxDone, content, imageURLs, files, filesClosed,
                   producerVars, consumerVars, cache, run, cancelAt>>

\* files := make(chan file, 3); go func() { d.downloadImages(...); close(files) }();
\* copyFilesToDst(ctx, d.SaveFlat, dst, files)
GoDownload ==
    /\ spc = "download"
    /\ spc' = "copy"
    /\ files' = <<>>
    /\ filesClosed' = FALSE
    /\ ppc' = "loop"
    /\ i' = 1
    /\ cpc' = "select"
    /\ UNCHANGED <<config, dstDisk, ctxDone, err, dst, closes, closedAt, content,
                   imageURLs,
                   res, f, cache, run, enqueued, written, sinkErr, started, fetchErr,
                   cancelAt, fetched, pausedAt, open>>

\* Variant of StartReturn: Start hands the pipeline's errors to its caller.
StartReturnPipelineError ==
    /\ spc = "copy"
    /\ cpc = "returned"
    /\ Return(IF ctxDone \/ fetchErr # {} \/ sinkErr # {} THEN "pipeline" ELSE "nil")
    /\ UNCHANGED <<config, dstDisk, ctxDone, content, imageURLs, files, filesClosed,
                   producerVars, consumerVars, cache, run, cancelAt>>

\* copyFilesToDst returned: return nil
StartReturn ==
    /\ spc = "copy"
    /\ cpc = "returned"
    /\ Return("nil")
    /\ UNCHANGED <<config, dstDisk, ctxDone, content, imageURLs, files, filesClosed,
                   producerVars, consumerVars, cache, run, cancelAt>>

\* ------------------------------------------------- the cache store
\* Variant of CachePath: a file name that is new in every run.
CachePathPerRun(u) == <<"imaget", u, run>>

\* filepath.Join(tmpDir, base64Filename(imageURL)): one file per reference,
\* the same in every run.
CachePath(u) == <<"imaget", u>>

\* Variant of ReqCtxDone: the request keeps the background context.
ReqCtxBackground == FALSE

\* req.WithContext(ctx): the request observes the context of the run.
ReqCtxDone == ctxDone

\* Variant of ReqNoResume: the request asks for a restart from byte 0.
ReqNoResumeSet == TRUE

\* grab.NewRequest(path, url) leaves NoResume unset.
ReqNoResume == FALSE

\* c.Do(req), up to the point where it returns the response: grab checks the
\* request's context, asks the server for the size of the resource and
\* compares it with the file on disk.  headOK is whether that exchange
\* succeeds.
GrabDo(u, headOK) ==
    LET p == CachePath(u)
        local == FileAt(p)
        r == [NoResponse EXCEPT !.url = u, !.path = p, !.pre = local,
                                !.again = (fetched[u] # NoPath),
                                !.paused = pausedAt[u]]
    IN  IF ReqCtxDone THEN [r EXCEPT !.state = "cancel"]
        ELSE IF ~headOK THEN [r EXCEPT !.state = "err"]
        ELSE IF Len(local) = size[u] THEN [r EXCEPT !.state = "ok", !.from = Len(local)]
        ELSE IF ReqNoResume THEN [r EXCEPT !.state = "active", !.from = 0]
        ELSE IF Len(local) > size[u] THEN [r EXCEPT !.state = "err"]
        ELSE [r EXCEPT !.state = "active", !.from = Len(local)]

\* downloadImage, lines 372-378: build the request and call c.Do.
DoRequest ==
    /\ ppc = "loop"
    /\ i <= Len(imageURLs)
    /\ \E headOK \in BOOLEAN :
         LET u == imageURLs[i]
             r == GrabDo(u, headOK)
         IN  /\ res' = r
             /\ started' = IF r.state = "cancel" THEN started ELSE started \cup {u}
             /\ cache' = IF r.state = "active" /\ r.from = 0 /\ r.pre # <<>>
                          THEN WriteFile(r.path, <<>>)
                          ELSE cache
             /\ pausedAt' = IF r.state = "cancel" THEN pausedAt
                             ELSE [pausedAt EXCEPT ![u] = -1]
    /\ ppc' = "fetching"
    /\ UNCHANGED <<config, dstDisk, ctxDone, startVars, files, filesClosed, i,
                   consumerVars,
                   run, enqueued, fetchErr, cancelAt, fetched>>

\* grab's transfer goroutine receives the next byte of the ranged response
\* and appends it to the file; the last byte completes the transfer.
CopyByte ==
    /\ ppc = "fetching"
    /\ res.state = "active"
    /\ LET u == res.url
           at == res.from + res.net + 1
       IN  /\ at <= size[u]
           /\ cache' = WriteFile(res.path, Append(FileAt(res.path), Content(u)[at]))
           /\ res' = [res EXCEPT !.net = @ + 1,
                                  !.state = IF at = size[u] THEN "ok" ELSE "active"]
    /\ UNCHANGED <<config, dstDisk, ctxDone, startVars, files, filesClosed, ppc, i,
                   consumerVars, run, enqueued, started, fetchErr, cancelAt, fetched,
                   pausedAt>>

\* grab's transfer goroutine sees the request's context finished and ends
\* the transfer with the context's error; the file keeps its bytes.
Abort ==
    /\ ppc = "fetching"
    /\ res.state = "active"
    /\ ReqCtxDone
    /\ res' = [res EXCEPT !.state = "cancel"]
    /\ pausedAt' = [pausedAt EXCEPT ![res.url] = Len(FileAt(res.path))]
    /\ UNCHANGED <<config, dstDisk, ctxDone, startVars, files, filesClosed, ppc, i,
                   consumerVars, cache, run, enqueued, started, fetchErr, cancelAt,
                   fetched>>

\* The transfer fails (connection lost, truncated body); the file keeps its
\* bytes.
NetFail ==
    /\ ppc = "fetching"
    /\ res.state = "active"
    /\ res' = [res EXCEPT !.state = "err"]
    /\ UNCHANGED <<config, dstDisk, ctxDone, startVars, files, filesClosed, ppc, i,
                   consumerVars, cache, run, enqueued, started, fetchErr, cancelAt,
                   fetched, pausedAt>>

\* ---------------------------------------------------------- producer
\* Variant of closeFiles: the goroutine ends without close(files).
closeFilesNot ==
    /\ ppc' = "done"
    /\ UNCHANGED filesClosed

\* close(files), after downloadImages returned.
closeFiles ==
    /\ filesClosed' = TRUE
    /\ ppc' = "done"

\* Variant of OnFetchError: every error ends the loop.
OnFetchErrorReturn(state) ==
    /\ closeFiles
    /\ fetchErr' = IF state = "cancel" THEN fetchErr ELSE fetchErr \cup {res.url}
    /\ UNCHANGED i

\* What downloadImages does with the error of downloadImage (lines 353-359):
\* a context error ends the loop, any other error skips the reference.
OnFetchError(state) ==
    IF state = "cancel"
    THEN closeFiles /\ UNCHANGED <<i, fetchErr>>
    ELSE /\ fetchErr' = fetchErr \cup {res.url}
         /\ i' = i + 1
         /\ ppc' = "loop"
         /\ UNCHANGED filesClosed

\* <-res.Done; downloadImage returns res.Filename or res.Err(), and
\* downloadImages acts on it.
FetchReturn ==
    /\ ppc = "fetching"
    /\ res.state \in {"ok", "err", "cancel"}
    /\ IF res.state = "ok"
       THEN /\ ppc' = "send"
            /\ fetched' = IF fetched[res.url] = NoPath
                           THEN [fetched EXCEPT ![res.url] = res.path]
                           ELSE fetched
            /\ UNCHANGED <<i, fetchErr, filesClosed>>
       ELSE OnFetchError(res.state) /\ UNCHANGED fetched
    /\ UNCHANGED <<config, dstDisk, ctxDone, startVars, files, res, consumerVars,
                   cache, run,
                   enqueued, started, cancelAt, pausedAt>>

\* Variant of CanSend: a channel without a capacity limit.
CanSendUnbounded == TRUE

\* The channel accepts a value while it holds fewer than its capacity.
CanSend == Len(files) < QueueCap

\* Variant of Enqueue: a sent value joins the front.
EnqueueFront(q, x) == <<x>> \o q

\* A buffered channel is first in, first out: a sent value joins the back.
Enqueue(q, x) == Append(q, x)

\* files <- file{path: f, url: url}
Send ==
    /\ ppc = "send"
    /\ CanSend
    /\ files' = Enqueue(files, [path |-> res.path, url |-> res.url])
    /\ enqueued' = Append(enqueued, res.url)
    /\ i' = i + 1
    /\ ppc' = "loop"
    /\ UNCHANGED <<config, dstDisk, ctxDone, startVars, filesClosed, res,
                   consumerVars, cache,
                   run, started, fetchErr, cancelAt, fetched, pausedAt>>

\* The range loop is over (or the list was empty): downloadImages returns
\* and the goroutine closes files.
LoopEnd ==
    /\ ppc = "loop"
    /\ i > Len(imageURLs)
    /\ closeFiles
    /\ UNCHANGED <<config, dstDisk, ctxDone, startVars, files, i, res, consumerVars,
                   cache,
                   run, enqueued, started, fetchErr, cancelAt, fetched, pausedAt>>

\* ---------------------------------------------------------- consumer
\* copyFilesToDst leaves its loop.
consumerReturn ==
    /\ cpc' = "returned"
    /\ UNCHANGED <<files, f, written, open>>

\* The select of copyFilesToDst: Go picks any ready case.
SelectDone ==
    /\ cpc = "select"
    /\ ctxDone
    /\ consumerReturn
    /\ UNCHANGED <<config, dstDisk, ctxDone, startVars, filesClosed, producerVars,
                   sinkErr, cache, run, cancelAt>>

\* f, ok := <-files with a value: copyFileToDst(flat, dst, f) is called.
SelectRecv ==
    /\ cpc = "select"
    /\ files # <<>>
    /\ f' = Head(files)
    /\ files' = Tail(files)
    /\ written' = Append(written, Head(files).url)
    /\ cpc' = "copy"
    /\ UNCHANGED <<config, dstDisk, ctxDone, startVars, filesClosed, producerVars,
                   sinkErr, open, cache, run, cancelAt>>

\* f, ok := <-files on the closed, drained channel: ok is false.
SelectClosed ==
    /\ cpc = "select"
    /\ files = <<>>
    /\ filesClosed
    /\ consumerReturn
    /\ UNCHANGED <<config, dstDisk, ctxDone, startVars, filesClosed, producerVars,
                   sinkErr, cache, run, cancelAt>>

\* What copyFilesToDst does with the result of copyFileToDst: it reports an
\* error and goes on with the loop.
OnCopyResult(outcome) ==
    /\ sinkErr' = IF outcome = "ok" THEN sinkErr ELSE sinkErr \cup {f.url}
    /\ cpc' = "select"

\* The stream of one reference: in this specification a destination entry is
\* identified by the reference it is created for.
EntryOf(fl) == fl.url

\* dst.create on the destination path: dirDst.create makes the directories
\* on the way (os.MkdirAll) before it opens the file; the archive file of a
\* zipDst exists since newZipDst.
createDisk(d) == IF d = "absent" THEN "new" ELSE d

\* Variant of CloseEntry: the stream is left open.
CloseEntryLeak(o, e) == o

\* defer f.Close() on the stream dst.create returned.
CloseEntry(o, e) == o \ {e}

\* copyFileToDst, lines 418-436: os.Open of the cached file and dst.create;
\* each can fail, and then copyFileToDst returns the error.
CopyFile ==
    /\ cpc = "copy"
    /\ \E outcome \in {"ok", "open", "create"} :
         IF outcome = "ok"
         THEN /\ open' = open \cup {EntryOf(f)}
              /\ dstDisk' = createDisk(dstDisk)
              /\ cpc' = "write"
              /\ UNCHANGED <<f, sinkErr>>
         ELSE /\ OnCopyResult(outcome)
              /\ f' = NoFile
              /\ UNCHANGED <<open, dstDisk>>
    /\ UNCHANGED <<config, ctxDone, startVars, files, filesClosed, producerVars,
                   written, cache, run, cancelAt>>

\* copyFileToDst, lines 438-442: io.Copy, which can fail; the deferred
\* f.Close() and src.Close() run when copyFileToDst returns.
CopyData ==
    /\ cpc = "write"
    /\ \E outcome \in {"ok", "copy"} : OnCopyResult(outcome)
    /\ open' = CloseEntry(open, EntryOf(f))
    /\ f' = NoFile
    /\ UNCHANGED <<config, dstDisk, ctxDone, startVars, files, filesClosed,
                   producerVars, written, cache, run, cancelAt>>

\* ------------------------------------------------------- environment
\* The context is cancelled or its deadline passes.
Cancel ==
    /\ ~ctxDone
    /\ spc # "returned"
    /\ ctxDone' = TRUE
    /\ cancelAt' = IF ppc = "fetching" THEN i ELSE cancelAt
    /\ UNCHANGED <<config, dstDisk, startVars, files, filesClosed, producerVars,
                   consumerVars,
                   cache, run>>

\* What a run starts from; the cache directory is not part of it.
Fresh ==
    /\ ctxDone = FALSE
    /\ spc = "newDst"
    /\ err = "none"
    /\ dst = "none"
    /\ closes = 0
    /\ closedAt = [filesClosed |-> FALSE, queued |-> 0]
    /\ content = FALSE
    /\ imageURLs = <<>>
    /\ files = <<>>
    /\ filesClosed = FALSE
    /\ ppc = "idle"
    /\ i = 0
    /\ res = NoResponse
    /\ cpc = "idle"
    /\ f = NoFile
    /\ enqueued = <<>>
    /\ written = <<>>
    /\ sinkErr = {}
    /\ open = {}
    /\ started = {}
    /\ fetchErr = {}
    /\ cancelAt = 0

\* The process ended and the tool is invoked again on the same page; the
\* cache directory is left as it was.
Restart ==
    /\ spc = "returned"
    /\ run < MaxRuns
    /\ run' = run + 1
    /\ ctxDone' = FALSE
    /\ spc' = "newDst"
    /\ err' = "none"
    /\ dst' = "none"
    /\ closes' = 0
    /\ closedAt' = [filesClosed |-> FALSE, queued |-> 0]
    /\ content' = FALSE
    /\ imageURLs' = <<>>
    /\ files' = <<>>
    /\ filesClosed' = FALSE
    /\ ppc' = "idle"
    /\ i' = 0
    /\ res' = NoResponse
    /\ cpc' = "idle"
    /\ f' = NoFile
    /\ enqueued' = <<>>
    /\ written' = <<>>
    /\ sinkErr' = {}
    /\ open' = {}
    /\ Pre' = (IF dstDisk = "absent" THEN "absent" ELSE "old")
    /\ dstDisk' = (IF dstDisk = "absent" THEN "absent" ELSE "old")
    /\ started' = {}
    /\ fetchErr' = {}
    /\ cancelAt' = 0
    /\ UNCHANGED <<Dst, SkipAccept, page, size, cache, fetched, pausedAt, textVars>>

\* In the pipeline specifications the text run does not take place.
NoTextRun ==
    /\ Rev = "cmd"
    /\ FlagR = <<>>
    /\ FlagP = <<>>
    /\ SaveFlat = FALSE
    /\ body = <<>>
    /\ mpc = "idle"
    /\ merr = "none"
    /\ siteRead = FALSE
    /\ urls = <<>>
    /\ named = <<>>
    /\ paths = {}

\* ---------------------------------------------------- specifications
Kinds == {"dir", "zip", "other"}

\* One run of the pipeline; every resource is one byte long and the cache
\* directory is empty.
Init ==
    /\ Dst \in Kinds
    /\ SkipAccept \in BOOLEAN
    /\ Pre \in {"absent", "old"}
    /\ dstDisk = Pre
    /\ page \in 0..MaxURLs
    /\ size = [u \in 1..page |-> 1]
    /\ cache = <<>>
    /\ run = 1
    /\ fetched = [u \in 1..page |-> NoPath]
    /\ pausedAt = [u \in 1..page |-> -1]
    /\ Fresh
    /\ NoTextRun

Next ==
    \/ NewDst \/ NewRequest \/ ReadSite \/ Extract \/ Accept \/ GoDownload
    \/ StartReturn
    \/ DoRequest \/ CopyByte \/ Abort \/ NetFail \/ FetchReturn \/ Send \/ LoopEnd
    \/ SelectDone \/ SelectRecv \/ SelectClosed \/ CopyFile \/ CopyData
    \/ Cancel

Spec == Init /\ [][Next]_vars

\* Repeated runs over one cache directory; resources of every size up to
\* MaxSize.
InitCache ==
    /\ Dst = "dir"
    /\ SkipAccept = TRUE
    /\ Pre = "absent"
    /\ dstDisk = Pre
    /\ page \in 1..MaxCacheURLs
    /\ size \in [1..page -> 0..MaxSize]
    /\ cache = <<>>
    /\ run = 1
    /\ fetched = [u \in 1..page |-> NoPath]
    /\ pausedAt = [u \in 1..page |-> -1]
    /\ Fresh
    /\ NoTextRun

NextCache == Next \/ Restart

SpecCache == InitCache /\ [][NextCache]_vars

\* d.Dst of the text specification after filepath.Abs: a directory.
DstRoot == <<"/", "d">>

\* dirDst.create: the file that is opened for a name.
dirDstFile(name) == Join(DstRoot, name)

\* ---------------------------------------------- the run over page text
\* What pages are made of: two references that differ in the scheme only, a
\* tail that lengthens a reference by a second extension, markup between
\* references (which imageRegex does not take into a match), a scheme
\* alone, and a reference whose host is "..".
Segs ==
    {<<"h", "t", "t", "p", ":", "/", "/", "a", "/", "x", ".", "p", "n", "g">>,
     <<"h", "t", "t", "p", "s", ":", "/", "/", "a", "/", "x", ".", "p", "n", "g">>,
     <<"x", ".", "j", "p", "g">>,
     <<"<">>,
     <<"h", "t", "t", "p", ":">>,
     <<"h", "t", "t", "p", ":", "/", "/", ".", ".", "/", "x", ".", "p", "n", "g">>}

\* The page bodies of up to n segments.
RECURSIVE Pages(_)
Pages(n) ==
    IF n = 0 THEN {<<>>}
    ELSE Pages(n - 1) \cup {p \o s : p \in Pages(n - 1), s \in Segs}

\* The -r flag: not given, an expression and a malformed one.
Regexes == {<<>>, <<"^", "h", "t", "t", "p", "s">>, <<"(">>}

\* The -p flag of src/cmd/main.go: not given, a pattern that the references
\* ending in .png match, and a malformed one.
Patterns ==
    {<<>>, <<"*", "/", "*", "/", "*", "/", "*", ".", "p", "n", "g">>, <<"[", "a">>}

\* The text specification leaves the pipeline where it starts.
pipeVars == <<Dst, SkipAccept, page, size, Pre, dstDisk, ctxDone, startVars, files,
              filesClosed, producerVars, consumerVars, cache, cancelAt>>

\* parse() of the command: the -r flag is compiled and a failure is returned
\* to main, which exits; the -p flag is handed on as it is.
ParseFlags ==
    /\ mpc = "parse"
    /\ IF FlagR # <<>> /\ CompileFails(FlagR)
       THEN mpc' = "exit" /\ merr' = "flag"
       ELSE mpc' = "readSite" /\ UNCHANGED merr
    /\ UNCHANGED <<Rev, FlagR, FlagP, SaveFlat, body, siteRead, urls, named, paths,
                   run, pipeVars>>

\* Start: the request for the page is sent; the network decides.
ReadPage ==
    /\ mpc = "readSite"
    /\ siteRead' = TRUE
    /\ \E netOK \in BOOLEAN :
         IF netOK THEN mpc' = "extract" /\ UNCHANGED merr
         ELSE mpc' = "exit" /\ merr' = "page"
    /\ UNCHANGED <<Rev, FlagR, FlagP, SaveFlat, body, urls, named, paths, run,
                   pipeVars>>

\* Start: imageURLs := d.extractImageURLs(content). The library of
\* src/imaget.go ends here as far as this specification follows it.
ExtractPage ==
    /\ mpc = "extract"
    /\ urls' = IF Rev = "cmd" THEN extractImageURLs(body, FlagR)
               ELSE extractImageURLsPattern(body, FlagP, FlagR)
    /\ IF Rev = "cmd" THEN mpc' = "copy" /\ UNCHANGED merr
       ELSE mpc' = "exit" /\ merr' = "nil"
    /\ UNCHANGED <<Rev, FlagR, FlagP, SaveFlat, body, siteRead, named, paths, run,
                   pipeVars>>

\* The next reference goes through downloadImage, which asks grab for the
\* file at its cache path, and copyFileToDst, which names its copy in the
\* destination.
CopyNamed ==
    /\ mpc = "copy"
    /\ Len(named) < Len(urls)
    /\ LET u == urls[Len(named) + 1]
           fl == [url |-> u, path |-> RequestFilename(u)]
           name == DstFile(SaveFlat, fl)
       IN  /\ named' = Append(named, [url |-> u, path |-> fl.path, name |-> name,
                                      file |-> dirDstFile(name)])
           /\ paths' = paths \cup {<<run, u, fl.path>>}
    /\ UNCHANGED <<Rev, FlagR, FlagP, SaveFlat, body, mpc, merr, siteRead, urls, run,
                   pipeVars>>

\* Start returns nil after the last reference.
Exit ==
    /\ mpc = "copy"
    /\ Len(named) = Len(urls)
    /\ mpc' = "exit"
    /\ merr' = "nil"
    /\ UNCHANGED <<Rev, FlagR, FlagP, SaveFlat, body, siteRead, urls, named, paths,
                   run, pipeVars>>

\* The tool is invoked again with the same flags on the same page; the cache
\* paths of earlier runs are remembered.
Rerun ==
    /\ mpc = "exit"
    /\ run < MaxRuns
    /\ run' = run + 1
    /\ mpc' = "parse"
    /\ merr' = "none"
    /\ siteRead' = FALSE
    /\ urls' = <<>>
    /\ named' = <<>>
    /\ UNCHANGED <<Rev, FlagR, FlagP, SaveFlat, body, paths, pipeVars>>

\* Runs over every page of up to MaxSegs segments with every choice of
\* flags; src/cmd/imaget.go has no -p flag, src/imaget.go has no SaveFlat.
InitText ==
    /\ Rev \in {"cmd", "lib"}
    /\ FlagR \in Regexes
    /\ FlagP \in (IF Rev = "lib" THEN Patterns ELSE {<<>>})
    /\ SaveFlat \in (IF Rev = "cmd" THEN BOOLEAN ELSE {FALSE})
    /\ body \in Pages(MaxSegs)
    /\ mpc = "parse"
    /\ merr = "none"
    /\ siteRead = FALSE
    /\ urls = <<>>
    /\ named = <<>>
    /\ paths = {}
    /\ Dst = "dir"
    /\ SkipAccept = TRUE
    /\ Pre = "absent"
    /\ dstDisk = Pre
    /\ page = 0
    /\ size = <<>>
    /\ cache = <<>>
    /\ run = 1
    /\ fetched = <<>>
    /\ pausedAt = <<>>
    /\ Fresh

NextText == ParseFlags \/ ReadPage \/ ExtractPage \/ CopyNamed \/ Exit \/ Rerun

SpecText == InitText /\ [][NextText]_vars

\* --------------------------------------------- the scheduled pipeline
\* The steps of the producer goroutine, grab's transfer included: a fetch
\* call that was started ends, with the last byte, a failure or the
\* context's error.
ProducerStep ==
    DoRequest \/ CopyByte \/ Abort \/ NetFail \/ FetchReturn \/ Send \/ LoopEnd

\* The steps of copyFilesToDst and of Start after it: a sink write that was
\* started ends.
ConsumerStep ==
    SelectDone \/ SelectRecv \/ SelectClosed \/ CopyFile \/ CopyData \/ StartReturn

\* One run to a directory with the accept screen skipped.
InitLive ==
    /\ Dst = "dir"
    /\ SkipAccept = TRUE
    /\ Pre = "absent"
    /\ dstDisk = Pre
    /\ page \in 0..MaxLiveURLs
    /\ size = [u \in 1..page |-> 1]
    /\ cache = <<>>
    /\ run = 1
    /\ fetched = [u \in 1..page |-> NoPath]
    /\ pausedAt = [u \in 1..page |-> -1]
    /\ Fresh
    /\ NoTextRun

\* The Go scheduler runs a goroutine that can take a step; nothing obliges
\* the context to be cancelled.
SpecLive == InitLive /\ [][Next]_vars /\ WF_vars(ProducerStep) /\ WF_vars(ConsumerStep)

\* ------------------------------------------------------------ claims
\* Transfers whose fetch returned successfully and whose sink write has not
\* finished: held by the producer, queued, or being copied by the consumer.
Unsunk ==
    (IF ppc = "send" THEN 1 ELSE 0) + Len(files)
        + (IF cpc \in {"copy", "write"} THEN 1 ELSE 0)

\* C1: when Start has returned, every result the producer sent on files was
\* handed to copyFileToDst exactly once.
C1_QueuedAllWritten ==
    spc = "returned" =>
        \A k \in 1..Len(enqueued) : Count(written, enqueued[k]) = 1

\* C2: when dst.Close() was called in a run that started the pipeline, files
\* had been closed by the producer and held no result.
C2_ClosedAfterDrain ==
    (dst = "closed" /\ cpc # "idle") =>
        (closedAt.filesClosed /\ closedAt.queued = 0)

\* C3: at most QueueCap transfers are fetched and not yet sunk.
C3_UnsunkAtMostCap == Unsunk <= QueueCap

\* C3 (amended): the channel holds at most QueueCap results, and at most
\* QueueCap + 2 transfers are fetched and not yet sunk (the queue, one held
\* by the producer and one held by the consumer).
C3_UnsunkAtMostCapPlusTwo ==
    /\ Len(files) <= QueueCap
    /\ Unsunk <= QueueCap + 2

C3_Witness == Unsunk = QueueCap + 2

\* C4: if the context was cancelled while the fetch of reference c was in
\* flight, no request for a later reference passes the context check and no
\* later reference is sent on files.
C4_NoFetchAfterCancel ==
    cancelAt # 0 =>
        /\ \A u \in started : u <= cancelAt
        /\ \A u \in Range(enqueued) : u <= cancelAt

C4_Witness ==
    /\ cancelAt # 0
    /\ cancelAt < Len(imageURLs)
    /\ cancelAt \in Range(enqueued)
    /\ ppc = "done"

\* C5: a fetch error that is not a context error and a failed copy skip one
\* reference only: the producer stops before the end of the list only on a
\* context error, the consumer leaves its loop only on the context or on the
\* closed channel, and in a run without cancellation every reference either
\* failed to download or was handed to the sink.
C5_ErrorsSkipOne ==
    /\ (ppc = "done" /\ i <= Len(imageURLs)) => res.state = "cancel"
    /\ \A u \in fetchErr : u < i
    /\ cpc = "returned" => (ctxDone \/ (filesClosed /\ files = <<>>))
    /\ (spc = "returned" /\ cpc = "returned" /\ ~ctxDone) =>
          \A u \in 1..Len(imageURLs) : (u \in fetchErr) # (u \in Range(written))

C5_Witness ==
    /\ spc = "returned"
    /\ ~ctxDone
    /\ 1 \in fetchErr
    /\ 2 \in sinkErr
    /\ 3 \in Range(written) \ sinkErr

\* C6: references are handed to the sink in the order of the extractor's
\* output.
C6_WrittenInOrder ==
    \A a, b \in 1..Len(written) : a < b => written[a] < written[b]

C6_Witness ==
    /\ Len(written) >= 3
    /\ \E u \in 1..Len(imageURLs) : u < written[1]

\* C7: the destination is closed at most once, it is closed exactly once
\* when Start has returned after constructing it, and copyFileToDst never
\* runs on a closed destination.
C7_ClosedExactlyOnce ==
    /\ closes <= 1
    /\ (spc = "returned" /\ err # "dst") => (closes = 1 /\ dst = "closed")
    /\ cpc \in {"copy", "write"} => dst = "open"
    /\ dst = "closed" => cpc \in {"idle", "returned"}

C7_Witness ==
    /\ spc = "returned"
    /\ ctxDone
    /\ written # <<>>
    /\ ppc # "done"
    /\ closes = 1

\* C8: Start returns nil once the destination is constructed and the page
\* read, whatever happened in the pipeline; an error it returns is the one of
\* newDst, newRequest or readSite.
C8_OnlyFatalErrors ==
    spc = "returned" =>
        /\ (dst # "none" /\ content) => err = "nil"
        /\ err \in {"nil", "dst", "req", "page"}
        /\ err = "dst" => dst = "none"
        /\ err \in {"req", "page"} => (dst # "none" /\ ~content)

C8_Witness ==
    /\ spc = "returned"
    /\ err = "nil"
    /\ ctxDone
    /\ fetchErr # {}
    /\ sinkErr # {}

\* C9: a fetch of a reference that an earlier fetch completed fully receives
\* no byte of the resource, leaves the cache file with the content of the
\* resource, and the path it returns is the one the earlier fetch returned.
C9_RefetchIsFree ==
    /\ \A u \in DOMAIN fetched :
          fetched[u] # NoPath => FileAt(fetched[u]) = Content(u)
    /\ (res.state # "none" /\ res.again) =>
          /\ res.net = 0
          /\ res.state # "active"
          /\ res.pre = Content(res.url)
          /\ res.state = "ok" => res.path = fetched[res.url]

C9_Witness ==
    /\ run > 1
    /\ res.again
    /\ res.state = "ok"
    /\ ppc = "send"
    /\ size[res.url] > 0

\* C10: the bytes a cancelled fetch left in the cache file stay there; the
\* next fetch of the reference asks for the bytes from that offset on and
\* appends what it receives, and when it completes the file holds the
\* content of the resource.
C10_ResumeFromOffset ==
    /\ \A p \in DOMAIN cache :
          \E u \in 1..page : p = CachePath(u) /\ IsPrefix(cache[p], Content(u))
    /\ res.state # "none" =>
          /\ IsPrefix(res.pre, FileAt(res.path))
          /\ res.state \in {"active", "ok"} =>
                /\ res.from = Len(res.pre)
                /\ res.paused >= 0 => res.from = res.paused
                /\ FileAt(res.path)
                     = res.pre \o SubSeq(Content(res.url), res.from + 1,
                                         res.from + res.net)
          /\ res.state = "ok" =>
                /\ FileAt(res.path) = Content(res.url)
                /\ res.net = size[res.url] - Len(res.pre)

C10_Witness ==
    /\ res.state = "ok"
    /\ res.paused > 0
    /\ res.net > 0
    /\ res.net < size[res.url]

\* C15: a destination whose extension is neither empty nor a supported archive
\* extension makes Start return the configuration error, and until then and
\* afterwards no page or image request was issued and the destination path
\* is as it was before the run.
C15_UnsupportedDstFailsFirst ==
    Dst = "other" =>
        /\ spc \in {"newDst", "returned"}
        /\ spc = "returned" => err = "dst"
        /\ dst = "none"
        /\ ~content
        /\ started = {}
        /\ written = <<>>
        /\ dstDisk = Pre

C15_Witness == Dst = "other" /\ spc = "returned" /\ err = "dst" /\ Pre = "absent"

\* The number the deferred report of Start prints after "Saved":
\* len(imageURLs).
SavedReport == Len(imageURLs)

\* References of this run that were fetched, received by the consumer and
\* copied to the destination without an error.
Saved == (Range(written) \ sinkErr) \ {f.url}

C19_ReportCountsSaved ==
    (spc = "returned" /\ cpc = "returned") => SavedReport = Cardinality(Saved)

\* C20: at most one stream returned by dst.create is open at any time, and
\* none is open when the consumer is not inside copyFileToDst, so that the
\* next create finds the previous stream closed.
C20_OneEntryOpen ==
    /\ Cardinality(open) <= 1
    /\ cpc # "write" => open = {}

C20_Witness == cpc = "write" /\ open = {EntryOf(f)} /\ Len(written) >= 2

\* C11: the cache path of a reference depends on its URL alone: over all
\* runs, two requests have the same cache path exactly when they are for the
\* same URL.
C11_CachePathOfURL == \A p, q \in paths : p[2] = q[2] <=> p[3] = q[3]

C11_Witness ==
    \E p, q, r \in paths : p[1] # q[1] /\ p[2] = q[2] /\ r[2] # p[2]

\* The extractor has returned.
Extracted == mpc = "copy" \/ (mpc = "exit" /\ merr = "nil")

\* Where the reference u is matched for the first time, ix being the matches
\* of the page in their order; 0 when it is not matched.
FirstMatch(ix, u) ==
    LET at == {ix[k][1] : k \in {j \in 1..Len(ix) : SubSeq(body, ix[j][1], ix[j][2]) = u}}
    IN  IF at = {} THEN 0 ELSE CHOOSE a \in at : \A b \in at : a <= b

\* C12: the extractor's output holds no URL twice, every URL of it is matched
\* in the page, and the URLs are in the order of their first match.
C12_NoDuplicatesFirstSeen ==
    (Extracted /\ urls # <<>>) =>
        LET ix == FindAllIndexFrom(body, 1)
            first == [k \in 1..Len(urls) |-> FirstMatch(ix, urls[k])]
        IN  \A k \in 1..Len(urls) :
                /\ first[k] > 0
                /\ k > 1 => first[k - 1] < first[k]

C12_Witness ==
    /\ Extracted
    /\ Len(urls) >= 2
    /\ Len(FindAllString(body)) > Len(urls)
    /\ urls[1] = FindAllString(body)[Len(FindAllString(body))]

\* A reference satisfies every configured predicate.
Satisfies(u) ==
    /\ FlagR # <<>> => MatchString(FlagR, u)
    /\ FlagP # <<>> => Match(FlagP, u).match

\* C13: the extractor's output is the deduplicated matches of the page that
\* satisfy every configured predicate, all of them without a predicate.
C13_OutputIsFilteredCandidates ==
    Extracted => urls = SelectSeq(Dedup(FindAllString(body)), Satisfies)

\* C14: with a malformed -r or -p flag the run ends with the flag's error
\* before the page is requested.
C14_MalformedFilterFailsFast ==
    (CompileFails(FlagR) \/ BadPattern(FlagP)) =>
        \/ mpc = "parse"
        \/ mpc = "exit" /\ merr = "flag" /\ ~siteRead

\* The URL without its scheme prefix.
WithoutScheme(u) ==
    IF HasPrefix(u, <<"h", "t", "t", "p", ":", "/", "/">>) THEN From(u, 8)
    ELSE IF HasPrefix(u, <<"h", "t", "t", "p", "s", ":", "/", "/">>) THEN From(u, 9)
    ELSE u

\* C17: under hierarchical naming the name passed to dst.create is the URL
\* without its scheme prefix http:// or https://.
C17_HierarchicalName ==
    ~SaveFlat => \A k \in 1..Len(named) : named[k].name = WithoutScheme(named[k].url)

C17_Witness ==
    /\ ~SaveFlat
    /\ \E k \in 1..Len(named) :
           /\ HasPrefix(named[k].url, <<"h", "t", "t", "p", "s", ":", "/", "/">>)
           /\ named[k].name = <<"a", "/", "x", ".", "p", "n", "g">>

\* C18: under flat naming the name passed to dst.create is the base64 text
\* of the URL, from which the URL can be decoded, followed by the extension
\* of the URL; it has no separator and two URLs never have the same name.
C18_FlatName ==
    SaveFlat =>
        \A j, k \in 1..Len(named) :
            /\ named[k].name = EncodeToString(named[k].url) \o Ext(named[k].url)
            /\ Ext(named[k].url) \in ImageExts
            /\ DecodeString(SubSeq(named[k].name, 1, Len(named[k].name) - 4))
                   = named[k].url
            /\ "/" \notin Range(named[k].name)
            /\ named[j].name = named[k].name => named[j].url = named[k].url

C18_Witness ==
    /\ SaveFlat
    /\ Len(named) >= 2
    /\ named[1].url # named[2].url

\* C21: once the pipeline runs, the producer goroutine eventually ends and
\* files is closed.
C21_ProducerEnds == (spc = "copy") ~> filesClosed

\* C22: once the pipeline runs, Start eventually returns.
C22_StartReturns == (spc = "copy") ~> (spc = "returned")

C22_Witness ==
    /\ spc = "returned" /\ cpc = "returned"
    /\ ctxDone /\ files # <<>> /\ written # <<>>

\* A path lies under a directory.
Under(dir, path) == HasPrefix(path, dir \o <<"/">>)

\* C23: with a directory destination every file that dirDst.create opens
\* lies under the destination.
C23_FilesUnderDst == \A k \in 1..Len(named) : Under(DstRoot, named[k].file)

\* C24: under hierarchical naming two different references of a run never
\* get the same name in the destination.
C24_HierarchicalNamesDiffer ==
    ~SaveFlat =>
        \A j, k \in 1..Len(named) :
            named[j].name = named[k].name => named[j].url = named[k].url

\* C25: when Start has returned before the pipeline was started, because the
\* page could not be read or the accept screen was declined, an archive that
\* was at the destination path before the run is as it was.
C25_ArchiveKept ==
    (/\ Dst = "zip" /\ Pre = "old"
     /\ spc = "returned" /\ cpc = "idle" /\ err \in {"page", "nil"}) => dstDisk = "old"

====
